---- MODULE Spec2Model ----
(***************************************************************************)
(* Model of timesheet_transform.py: build_records_from_timesheet (weekly   *)
(* rows -> day records -> aggregate by [DATA, SURNAME]),                   *)
(* update_strategie_in_place (overwrite COMMESSA/ORE of the ledger rows    *)
(* whose date matches) and main (file selection, build, update, report).   *)
(*                                                                         *)
(* Text whose characters matter (names, labor codes, hour cells) is a      *)
(* sequence of code points, so that case, ordering, stripping and joining  *)
(* are computed as Python computes them.  Date text is a structure         *)
(* (format, three numbers, time of day) that pd.to_datetime turns into a   *)
(* calendar date with the day/month resolution rule of its parser.  Hours  *)
(* are integers in one fixed unit, so that float addition is exact.  The   *)
(* "Codice Commessa" cells are text (after lines 29-33 every row has one). *)
(*                                                                         *)
(* SpecNormalize applies build_records_from_timesheet to timesheets of up  *)
(* to MaxRows rows, and again to the same rows in another order.  Spec is  *)
(* main(), step by step, on a timesheet and a ledger whose sheet "Fava"    *)
(* has up to MaxSlots rows; the script may be run up to MaxRuns times.     *)
(***************************************************************************)
EXTENDS Integers, Sequences, FiniteSets, TLC

VARIABLES
    df_raw,         \* the concatenated timesheet rows (after lines 27-33)
    commessa_map,   \* dict of the mapping file: raw code -> label
    records,        \* the list `records` of per-day dicts (lines 48-78)
    df_agg,         \* the aggregated DataFrame, a sequence of rows
    result,         \* how build_records_from_timesheet ended: ok, empty, raised
    first,          \* the first build of this input: result, bag of rows, row order
    disk,           \* the ledger workbook as persisted in strategie_file
    disk0,          \* the persisted ledger when the current run started
    wb,             \* the workbook loaded in memory by openpyxl
    sheet_idx,      \* position of the loop over wb.sheetnames
    pc,             \* position in main()
    outcome,        \* what main() reported to the user in this run
    saves,          \* number of wb.save calls in the current run
    updates,        \* number of runs that saved the ledger so far
    run             \* number of the current run of the script

vars == <<df_raw, commessa_map, records, df_agg, result, first, disk, disk0,
          wb, sheet_idx, pc, outcome, saves, updates, run>>

(***************************************************************************)
(* Bounds of the model.                                                    *)
(***************************************************************************)
MaxRows == 2

MaxSlots == 2

MaxRuns == 2

(***************************************************************************)
(* Text as code points.                                                    *)
(***************************************************************************)
Fava == <<70, 97, 118, 97>>

FAVA == <<70, 65, 86, 65>>

Riva == <<82, 105, 118, 97>>

Pio == <<80, 105, 111>>

PIO == <<80, 73, 79>>

Ugo == <<85, 103, 111>>

\* "UNKNOWN"
UNKNOWN == <<85, 78, 75, 78, 79, 87, 78>>

\* "; "
Separator == <<59, 32>>

\* raw labor codes "I1" and "A7", canonical label "2W"
CodeI1 == <<73, 49>>

CodeA7 == <<65, 55>>

Label2W == <<50, 87>>

\* Python's order on str: lexicographic on code points, a proper prefix first.
StrLess(a, b) ==
    \E i \in 1..(Len(b)) :
        /\ i - 1 <= Len(a)
        /\ \A j \in 1..(i - 1) : a[j] = b[j]
        /\ \/ Len(a) = i - 1
           \/ (i <= Len(a) /\ a[i] < b[i])

\* str.lower on the ASCII letters
Lower(s) == [i \in 1..Len(s) |-> IF s[i] \in 65..90 THEN s[i] + 32 ELSE s[i]]

\* characters float() and str.strip() treat as white space (tab, LF, CR, space, NBSP)
IsSpace(c) == c \in {9, 10, 13, 32, 160}

IsDigit(c) == c \in 48..57

RECURSIVE LStrip(_)
LStrip(s) == IF s # <<>> /\ IsSpace(Head(s)) THEN LStrip(Tail(s)) ELSE s

RECURSIVE RStrip(_)
RStrip(s) ==
    IF s # <<>> /\ IsSpace(s[Len(s)]) THEN RStrip(SubSeq(s, 1, Len(s) - 1)) ELSE s

Strip(s) == RStrip(LStrip(s))

RECURSIVE DigitsValue(_)
DigitsValue(s) ==
    IF s = <<>> THEN 0
    ELSE 10 * DigitsValue(SubSeq(s, 1, Len(s) - 1)) + (s[Len(s)] - 48)

\* the texts float() accepts, within the alphabet of the model (optional sign, digits)
Unsigned(s) == IF s # <<>> /\ Head(s) \in {43, 45} THEN Tail(s) ELSE s

IsFloatText(s) ==
    LET u == Unsigned(Strip(s))
    IN  u # <<>> /\ \A i \in 1..Len(u) : IsDigit(u[i])

FloatOfText(s) ==
    LET t == Strip(s)
    IN  IF t # <<>> /\ Head(t) = 45 THEN 0 - DigitsValue(Unsigned(t))
        ELSE DigitsValue(Unsigned(t))

(***************************************************************************)
(* Cell values as pandas and openpyxl deliver them.                        *)
(***************************************************************************)
NaN == [t |-> "nan", v |-> 0, s |-> <<>>]

Num(n) == [t |-> "num", v |-> n, s |-> <<>>]

Str(cs) == [t |-> "str", v |-> 0, s |-> cs]

\* pd.notna
notna(x) == x.t # "nan"

\* float(x) raises ValueError
FloatRaises(x) == x.t = "str" /\ ~IsFloatText(x.s)

\* float(x) where it does not raise
float(x) == IF x.t = "str" THEN FloatOfText(x.s) ELSE x.v

(***************************************************************************)
(* Calendar dates are proleptic Gregorian ordinals, as datetime.date.      *)
(***************************************************************************)
IsLeap(y) == (y % 4 = 0) /\ ((y % 100 # 0) \/ (y % 400 = 0))

DaysInMonth(y, m) ==
    IF m = 2 THEN (IF IsLeap(y) THEN 29 ELSE 28)
    ELSE IF m \in {4, 6, 9, 11} THEN 30 ELSE 31

RECURSIVE DaysBeforeMonth(_, _)
DaysBeforeMonth(y, m) ==
    IF m = 1 THEN 0 ELSE DaysBeforeMonth(y, m - 1) + DaysInMonth(y, m - 1)

DaysBeforeYear(y) ==
    (y - 1) * 365 + ((y - 1) \div 4) - ((y - 1) \div 100) + ((y - 1) \div 400)

Ordinal(y, m, d) == DaysBeforeYear(y) + DaysBeforeMonth(y, m) + d

ValidYMD(y, m, d) == m \in 1..12 /\ d >= 1 /\ d <= DaysInMonth(y, m)

\* date text "a/b/y", optionally followed by a time of day (minutes after midnight)
Slash(a, b, y, tod) == [fmt |-> "slash", f |-> <<a, b, y>>, tod |-> tod]

\* date text "y-m-d", optionally followed by a time of day
Iso(y, m, d, tod) == [fmt |-> "iso", f |-> <<y, m, d>>, tod |-> tod]

\* text that is no date
Junk == [fmt |-> "junk", f |-> <<0, 0, 0>>, tod |-> 0]

\* year, month, day that the parser of pd.to_datetime reads in a date text
YMD(text, dayfirst) ==
    IF text.fmt = "iso" THEN text.f
    ELSE IF text.f[1] > 12 \/ (dayfirst /\ text.f[2] <= 12)
         THEN <<text.f[3], text.f[2], text.f[1]>>
         ELSE <<text.f[3], text.f[1], text.f[2]>>

\* pd.to_datetime(text, dayfirst=...) raises
ToDatetimeRaises(text, dayfirst) ==
    \/ text.fmt = "junk"
    \/ LET p == YMD(text, dayfirst) IN ~ValidYMD(p[1], p[2], p[3])

\* pd.to_datetime(text, dayfirst=...): a Timestamp (date ordinal, time of day)
to_datetime(text, dayfirst) ==
    LET p == YMD(text, dayfirst)
    IN  [ord |-> Ordinal(p[1], p[2], p[3]), tod |-> text.tod]

\* Timestamp + timedelta(days=n)
AddDays(ts, n) == [ord |-> ts.ord + n, tod |-> ts.tod]

\* Timestamp.date(), datetime.date(): the time of day is dropped
DateOf(ts) == ts.ord

\* pd.to_datetime(a date): the Timestamp at midnight
TimestampOfDate(d) == [ord |-> d, tod |-> 0]

(***************************************************************************)
(* build_records_from_timesheet.  A row of df_raw is                       *)
(*   WeekRange : the pieces of the text around each " al " (one piece: no  *)
(*               delimiter), each piece a date text;                       *)
(*   Codice    : the "Codice Commessa" cell, a text;                       *)
(*   Autore    : the white-space separated tokens of the stripped text;    *)
(*   ore       : weekday column -> cell, a missing key being a missing col.*)
(***************************************************************************)
\* day_offset counted from one
DayOffsetFromOne ==
    [Lunedi |-> 1, Martedi |-> 2, Mercoledi |-> 3, Giovedi |-> 4,
     Venerdi |-> 5, Sabato |-> 6, Domenica |-> 7]

DayCols == <<"Lunedi", "Martedi", "Mercoledi", "Giovedi", "Venerdi", "Sabato", "Domenica">>

day_offset ==
    [Lunedi |-> 0, Martedi |-> 1, Mercoledi |-> 2, Giovedi |-> 3,
     Venerdi |-> 4, Sabato |-> 5, Domenica |-> 6]

\* row.get(day_col, 0)
GetHours(row, day_col) ==
    IF day_col \in DOMAIN row.ore THEN row.ore[day_col] ELSE Num(0)

\* commessa_map.get(codice_commessa, codice_commessa)
MapGet(map, codice) == IF codice \in DOMAIN map THEN map[codice] ELSE codice

\* lines 50-58: the row is left by `continue`
RowSkipped(row) ==
    \/ Len(row.WeekRange) < 2
    \/ Len(row.WeekRange) # 2
    \/ ToDatetimeRaises(row.WeekRange[1], TRUE)

\* autore.split()[-1] if autore else "UNKNOWN"
SurnameOf(autore) == IF autore = <<>> THEN UNKNOWN ELSE autore[Len(autore)]

DayRecord(row, map, day_col) ==
    [DATA     |-> DateOf(AddDays(to_datetime(row.WeekRange[1], TRUE), day_offset[day_col])),
     COMMESSA |-> MapGet(map, row.Codice),
     ORE      |-> float(GetHours(row, day_col)),
     SURNAME  |-> SurnameOf(row.Autore)]

\* lines 69-78: the loop over the weekday columns, from column k on
RECURSIVE DayLoop(_, _, _, _)
DayLoop(row, map, k, recs) ==
    IF k > Len(DayCols) THEN [raised |-> FALSE, records |-> recs]
    ELSE LET hours == GetHours(row, DayCols[k])
         IN  IF ~notna(hours) THEN DayLoop(row, map, k + 1, recs)
             ELSE IF FloatRaises(hours) THEN [raised |-> TRUE, records |-> recs]
             ELSE IF float(hours) # 0
                  THEN DayLoop(row, map, k + 1, Append(recs, DayRecord(row, map, DayCols[k])))
                  ELSE DayLoop(row, map, k + 1, recs)

\* lines 48-78: the loop over df_raw.iterrows(), from row i on
RECURSIVE RowLoop(_, _, _, _)
RowLoop(df, map, i, recs) ==
    IF i > Len(df) THEN [raised |-> FALSE, records |-> recs]
    ELSE IF RowSkipped(df[i]) THEN RowLoop(df, map, i + 1, recs)
    ELSE LET r == DayLoop(df[i], map, 1, recs)
         IN  IF r.raised THEN r ELSE RowLoop(df, map, i + 1, r.records)

\* order of the group keys [DATA, SURNAME] (groupby sorts its keys)
KeyLess(k1, k2) == k1[1] < k2[1] \/ (k1[1] = k2[1] /\ StrLess(k1[2], k2[2]))

RECURSIVE SortKeys(_)
SortKeys(S) ==
    IF S = {} THEN <<>>
    ELSE LET m == CHOOSE k \in S : \A o \in S \ {k} : KeyLess(k, o)
         IN  <<m>> \o SortKeys(S \ {m})

\* sorted(set(x)) on texts
RECURSIVE SortStrs(_)
SortStrs(S) ==
    IF S = {} THEN <<>>
    ELSE LET m == CHOOSE k \in S : \A o \in S \ {k} : StrLess(k, o)
         IN  <<m>> \o SortStrs(S \ {m})

\* "; ".join(...)
RECURSIVE Join(_)
Join(strs) ==
    IF strs = <<>> THEN <<>>
    ELSE IF Len(strs) = 1 THEN strs[1]
    ELSE strs[1] \o Separator \o Join(Tail(strs))

RECURSIVE SumORE(_)
SumORE(rows) == IF rows = <<>> THEN 0 ELSE rows[1].ORE + SumORE(Tail(rows))

CommesseOf(rows) == {rows[j].COMMESSA : j \in 1..Len(rows)}

\* the key columns of the groupby at line 90: one group per [DATA, SURNAME]
GroupKey(r) == <<r.DATA, r.SURNAME>>

\* the labels of a group in the order the rows bring them, no label twice
RECURSIVE FirstSeen(_, _)
FirstSeen(rows, seen) ==
    IF rows = <<>> THEN <<>>
    ELSE IF rows[1].COMMESSA \in seen THEN FirstSeen(Tail(rows), seen)
    ELSE <<rows[1].COMMESSA>> \o FirstSeen(Tail(rows), seen \cup {rows[1].COMMESSA})

\* AggRow with the labels joined unsorted
AggRowUnsorted(key, group) ==
    [DATA     |-> [ord |-> key[1], tod |-> 0],
     SURNAME  |-> key[2],
     COMMESSA |-> Join(FirstSeen(group, {})),
     ORE      |-> SumORE(group)]

\* the aggregation of one group (lines 90-93)
AggRow(key, group) ==
    [DATA     |-> TimestampOfDate(key[1]),
     SURNAME  |-> key[2],
     COMMESSA |-> Join(SortStrs(CommesseOf(group))),
     ORE      |-> SumORE(group)]

\* Aggregate with one group per [DATA, COMMESSA, SURNAME]
AggregatePerCommessa(recs) ==
    LET key3(r) == <<r.DATA, r.SURNAME, r.COMMESSA>>
        heads == SelectSeq([j \in 1..Len(recs) |-> j],
                           LAMBDA j : \A h \in 1..(j - 1) : key3(recs[h]) # key3(recs[j]))
    IN  [i \in 1..Len(heads) |->
            AggRow(key3(recs[heads[i]]),
                   SelectSeq(recs, LAMBDA r : key3(r) = key3(recs[heads[i]])))]

\* lines 84-95
Aggregate(recs) ==
    LET keys == SortKeys({GroupKey(recs[j]) : j \in 1..Len(recs)})
    IN  [i \in 1..Len(keys) |->
            AggRow(keys[i], SelectSeq(recs, LAMBDA r : GroupKey(r) = keys[i]))]

\* lines 48-96: how the function ends, the list `records`, the returned frame
build_records_from_timesheet(df, map) ==
    LET loop == RowLoop(df, map, 1, <<>>)
    IN  IF loop.raised
        THEN [result |-> "raised", records |-> loop.records, df_agg |-> <<>>]
        ELSE IF loop.records = <<>>
        THEN [result |-> "empty", records |-> <<>>, df_agg |-> <<>>]
        ELSE [result |-> "ok", records |-> loop.records, df_agg |-> Aggregate(loop.records)]

(***************************************************************************)
(* Input domains.                                                          *)
(***************************************************************************)
Row(week, codice, autore, ore) ==
    [WeekRange |-> week, Codice |-> codice, Autore |-> autore, ore |-> ore]

\* "03/03/2025 al 09/03/2025": Monday 3 March 2025
WkMar03 == <<Slash(3, 3, 2025, 0), Slash(9, 3, 2025, 0)>>

\* "24/02/2025 al 02/03/2025": the week runs over the end of February
WkFeb24 == <<Slash(24, 2, 2025, 0), Slash(2, 3, 2025, 0)>>

\* "04/03/2025 al 10/03/2025": day and month differ and both are at most 12
WkMar04 == <<Slash(4, 3, 2025, 0), Slash(10, 3, 2025, 0)>>

\* "03/03/2025": no " al "
WkNoDelim == <<Slash(3, 3, 2025, 0)>>

\* "30/02/2025 al 09/03/2025": no such day
WkBadDate == <<Slash(30, 2, 2025, 0), Slash(9, 3, 2025, 0)>>

\* "settimana al 09/03/2025": the start is no date
WkJunk == <<Junk, Slash(9, 3, 2025, 0)>>

\* "03/03/2025 al 09/03/2025 al 16/03/2025": split gives three pieces
WkTwoDelims == <<Slash(3, 3, 2025, 0), Slash(9, 3, 2025, 0), Slash(16, 3, 2025, 0)>>

\* hour cells as text: NBSP "2" space, "6", "abc", two spaces, "-4"
TxtPadded2 == Str(<<160, 50, 32>>)

Txt6 == Str(<<54>>)

TxtAbc == Str(<<97, 98, 99>>)

TxtBlank == Str(<<32, 32>>)

TxtMinus4 == Str(<<45, 52>>)

AllNaN == [d \in {DayCols[k] : k \in 1..Len(DayCols)} |-> NaN]

\* the example row: Monday 4, Tuesday 0, Wednesday 3, code "I1", "Pio Fava"
RowExample ==
    Row(WkMar03, CodeI1, <<Pio, Fava>>,
        ("Lunedi" :> Num(4)) @@ ("Martedi" :> Num(0)) @@ ("Mercoledi" :> Num(3)) @@ AllNaN)

\* the same person in upper case, another code, the same Monday
RowUpper == Row(WkMar03, CodeA7, <<PIO, FAVA>>, ("Lunedi" :> Num(2)) @@ AllNaN)

\* the same surname with another given name; Monday as padded text, Sunday
RowUgo ==
    Row(WkMar03, CodeA7, <<Ugo, Fava>>,
        ("Lunedi" :> TxtPadded2) @@ ("Domenica" :> Num(1)) @@ AllNaN)

\* a one-token author; Saturday and Sunday fall in March; no other columns
RowRiva == Row(WkFeb24, CodeI1, <<Riva>>, ("Sabato" :> Num(5)) @@ ("Domenica" :> Txt6))

\* non-numeric text in the Tuesday cell of an otherwise valid row
RowAbc ==
    Row(WkMar03, CodeI1, <<Pio, Fava>>,
        ("Lunedi" :> Num(4)) @@ ("Martedi" :> TxtAbc) @@ ("Mercoledi" :> Num(3)) @@ AllNaN)

\* a valid row without hours
RowNoHours == Row(WkMar03, CodeI1, <<Pio, Fava>>, AllNaN)

\* the rows of the timesheets of SpecNormalize
NormPool ==
    { RowExample, RowUpper, RowUgo, RowRiva, RowAbc, RowNoHours,
      Row(WkMar04, CodeA7, <<>>, ("Lunedi" :> Num(1)) @@ AllNaN),
      Row(WkMar03, CodeA7, <<Pio, Fava>>, ("Lunedi" :> TxtMinus4) @@ AllNaN),
      Row(WkNoDelim, CodeI1, <<Pio, Fava>>, ("Lunedi" :> Num(4)) @@ AllNaN),
      Row(WkBadDate, CodeA7, <<Pio, Fava>>, ("Lunedi" :> TxtAbc) @@ AllNaN),
      Row(WkJunk, CodeI1, <<Riva>>, ("Martedi" :> Num(2)) @@ AllNaN),
      Row(WkTwoDelims, CodeI1, <<Ugo, Fava>>, ("Lunedi" :> Num(4)) @@ AllNaN),
      Row(WkMar03, CodeA7, <<Ugo, Fava>>, ("Lunedi" :> Num(4)) @@ ("Giovedi" :> TxtBlank) @@ AllNaN) }

\* the mapping files: one pair, or none
MapPool == { (CodeI1 :> Label2W), <<>> }

SeqsUpTo(S, n) == UNION {[1..k -> S] : k \in 0..n}

(***************************************************************************)
(* SpecNormalize: build_records_from_timesheet applied to a timesheet, and *)
(* applied again to the same rows in another order.                        *)
(***************************************************************************)
BagOf(seq) ==
    [r \in {seq[i] : i \in 1..Len(seq)} |-> Cardinality({i \in 1..Len(seq) : seq[i] = r})]

SwapRows(df, i) ==
    [k \in 1..Len(df) |-> IF k = i THEN df[i + 1] ELSE IF k = i + 1 THEN df[i] ELSE df[k]]

InitNormalize ==
    /\ df_raw \in SeqsUpTo(NormPool, MaxRows)
    /\ commessa_map \in MapPool
    /\ records = <<>>
    /\ df_agg = <<>>
    /\ result = "none"
    /\ first = <<>>
    /\ disk = <<>>
    /\ disk0 = <<>>
    /\ wb = <<>>
    /\ sheet_idx = 0
    /\ pc = "build"
    /\ outcome = "none"
    /\ saves = 0
    /\ updates = 0
    /\ run = 1

\* the call of build_records_from_timesheet
NBuild ==
    /\ pc = "build"
    /\ LET b == build_records_from_timesheet(df_raw, commessa_map)
       IN  /\ records' = b.records
           /\ df_agg' = b.df_agg
           /\ result' = b.result
           /\ first' = <<b.result, BagOf(b.df_agg), df_raw>>
    /\ pc' = "built"
    /\ UNCHANGED <<df_raw, commessa_map, disk, disk0, wb, sheet_idx, outcome, saves, updates, run>>

\* the same rows in another order (rows i and i+1 exchanged), built again
NReorder(i) ==
    /\ pc = "built"
    /\ df_raw[i] # df_raw[i + 1]
    /\ df_raw' = SwapRows(df_raw, i)
    /\ LET b == build_records_from_timesheet(df_raw', commessa_map)
       IN  /\ records' = b.records
           /\ df_agg' = b.df_agg
           /\ result' = b.result
    /\ UNCHANGED <<commessa_map, first, disk, disk0, wb, sheet_idx, pc, outcome, saves, updates, run>>

NextNormalize ==
    \/ NBuild
    \/ \E i \in 1..(Len(df_raw) - 1) : NReorder(i)

SpecNormalize == InitNormalize /\ [][NextNormalize]_vars

(***************************************************************************)
(* update_strategie_in_place.  A workbook is a sequence of sheets          *)
(* [name, rows]; a row (below the header row) has the cells A (date),      *)
(* B (COMMESSA), C (ORE), D (any further column) and `merged`: B is part   *)
(* of a merged range, whose value cannot be set.                           *)
(***************************************************************************)
None == [t |-> "none", v |-> 0, s |-> <<>>]

\* values of a date cell: a datetime, a text, nothing
DatetimeCell(ord, tod) == [t |-> "datetime", ts |-> [ord |-> ord, tod |-> tod], text |-> Junk]

TextCell(text) == [t |-> "str", ts |-> [ord |-> 0, tod |-> 0], text |-> text]

EmptyCell == [t |-> "none", ts |-> [ord |-> 0, tod |-> 0], text |-> Junk]

\* CellDate that compares the datetime itself with the dates of the index
CellDateKeepsTime(cell) ==
    IF cell.t = "str"
    THEN IF ToDatetimeRaises(cell.text, FALSE) THEN [skip |-> TRUE, has |-> FALSE, d |-> 0]
         ELSE [skip |-> FALSE, has |-> TRUE, d |-> DateOf(to_datetime(cell.text, FALSE))]
    ELSE IF cell.t = "datetime"
         THEN [skip |-> FALSE, has |-> cell.ts.tod = 0, d |-> cell.ts.ord]
         ELSE [skip |-> FALSE, has |-> FALSE, d |-> 0]

\* lines 124-131: the date of a date cell; skip: the row is left by `continue`
CellDate(cell) ==
    IF cell.t = "str"
    THEN IF ToDatetimeRaises(cell.text, FALSE) THEN [skip |-> TRUE, has |-> FALSE, d |-> 0]
         ELSE [skip |-> FALSE, has |-> TRUE, d |-> DateOf(to_datetime(cell.text, FALSE))]
    ELSE IF cell.t = "datetime"
         THEN [skip |-> FALSE, has |-> TRUE, d |-> DateOf(cell.ts)]
         ELSE [skip |-> FALSE, has |-> FALSE, d |-> 0]

\* Subset without the filter on the surname
SubsetAnySurname(df, sheet_name) == df

\* line 113: df_agg[df_agg["SURNAME"] == sheet_name]
Subset(df, sheet_name) == SelectSeq(df, LAMBDA r : r.SURNAME = sheet_name)

\* line 135: subset.loc[subset.index.date == cell_value]
Match(subset, d) == SelectSeq(subset, LAMBDA r : DateOf(r.DATA) = d)

\* lines 136-141
combined_commessa(match) ==
    IF Len(match) > 1 THEN Join(SortStrs(CommesseOf(match))) ELSE match[1].COMMESSA

combined_ore(match) == IF Len(match) > 1 THEN SumORE(match) ELSE match[1].ORE

\* WriteCells that adds the hours to those of the cell
WriteCellsAdding(row, match) ==
    [row EXCEPT !.B = Str(combined_commessa(match)),
                !.C = Num(row.C.v + combined_ore(match))]

\* lines 143-144: the two cells of the row are set
WriteCells(row, match) ==
    [row EXCEPT !.B = Str(combined_commessa(match)), !.C = Num(combined_ore(match))]

\* lines 120-144: the loop over the rows of a sheet, from row k on
RECURSIVE RowScan(_, _, _)
RowScan(rows, subset, k) ==
    IF k > Len(rows) THEN [raised |-> FALSE, rows |-> rows]
    ELSE LET cd == CellDate(rows[k].A)
         IN  IF cd.skip \/ ~cd.has \/ Match(subset, cd.d) = <<>>
             THEN RowScan(rows, subset, k + 1)
             ELSE IF rows[k].merged THEN [raised |-> TRUE, rows |-> rows]
             ELSE RowScan([rows EXCEPT ![k] = WriteCells(rows[k], Match(subset, cd.d))],
                          subset, k + 1)

\* lines 111-144: one pass of the loop over wb.sheetnames
UpdateSheet(ws, df) ==
    LET subset == Subset(df, ws.name)
    IN  IF subset = <<>> THEN [raised |-> FALSE, rows |-> ws.rows]
        ELSE RowScan(ws.rows, subset, 1)

(***************************************************************************)
(* The ledgers and timesheets of the runs of main().                       *)
(***************************************************************************)
\* "old"
OldText == Str(<<111, 108, 100>>)

Slot(a, b, c, merged) == [A |-> a, B |-> b, C |-> c, D |-> OldText, merged |-> merged]

\* the rows a sheet of the ledger may hold
SlotPool ==
    { Slot(DatetimeCell(Ordinal(2025, 3, 3), 0), None, None, FALSE),
      Slot(DatetimeCell(Ordinal(2025, 3, 3), 510), OldText, Num(9), FALSE),
      Slot(TextCell(Iso(2025, 3, 5, 0)), OldText, Num(9), FALSE),
      Slot(TextCell(Slash(3, 9, 2025, 0)), OldText, Num(9), FALSE),
      Slot(TextCell(Junk), OldText, Num(9), FALSE),
      Slot(DatetimeCell(Ordinal(2025, 3, 5), 0), OldText, Num(9), TRUE) }

\* "Note"
NoteName == <<78, 111, 116, 101>>

\* the workbook: sheet "Fava" with the given rows, sheet "Riva", sheet "Note"
Ledger(fava_rows) ==
    << [name |-> Fava, rows |-> fava_rows],
       [name |-> Riva,
        rows |-> << Slot(DatetimeCell(Ordinal(2025, 3, 1), 0), OldText, Num(9), FALSE),
                    Slot(EmptyCell, None, None, FALSE),
                    Slot(DatetimeCell(Ordinal(2025, 4, 1), 0), OldText, Num(9), FALSE) >>],
       [name |-> NoteName,
        rows |-> << Slot(DatetimeCell(Ordinal(2025, 3, 3), 0), OldText, Num(9), FALSE),
                    Slot(DatetimeCell(Ordinal(2025, 3, 5), 0), OldText, Num(9), TRUE) >>] >>

\* the rows of the timesheets of the runs, in the order of the file
RunRows == <<RowExample, RowUpper, RowUgo, RowRiva, RowAbc, RowNoHours>>

\* the timesheets: at most n of the rows
Timesheets(n) ==
    LET picks == {P \in SUBSET (1..Len(RunRows)) : Cardinality(P) <= n}
    IN  {SelectSeq(RunRows, LAMBDA r : \E j \in P : RunRows[j] = r) : P \in picks}

(***************************************************************************)
(* main(): one action per step; the script may be run again on the same    *)
(* files.                                                                  *)
(***************************************************************************)
Init ==
    /\ df_raw \in Timesheets(MaxRows)
    /\ commessa_map = (CodeI1 :> Label2W)
    /\ disk \in {Ledger(rows) : rows \in SeqsUpTo(SlotPool, MaxSlots)}
    /\ disk0 = disk
    /\ records = <<>>
    /\ df_agg = <<>>
    /\ result = "none"
    /\ first = <<>>
    /\ wb = <<>>
    /\ sheet_idx = 0
    /\ pc = "ask_timesheet"
    /\ outcome = "none"
    /\ saves = 0
    /\ updates = 0
    /\ run = 1

\* lines 155-179: a file dialog returns a path and main goes on
AskFile(here, next) ==
    /\ pc = here
    /\ pc' = next
    /\ UNCHANGED <<df_raw, commessa_map, records, df_agg, result, first, disk, disk0,
                   wb, sheet_idx, outcome, saves, updates, run>>

\* lines 159-161, 168-170, 177-179: the dialog is cancelled; showerror, return
CancelFile(here, message) ==
    /\ pc = here
    /\ pc' = "exit"
    /\ outcome' = message
    /\ UNCHANGED <<df_raw, commessa_map, records, df_agg, result, first, disk, disk0,
                   wb, sheet_idx, saves, updates, run>>

\* lines 182-185: build_records_from_timesheet; an exception leaves main,
\* an empty frame is reported, otherwise the update starts
Build ==
    /\ pc = "build"
    /\ LET b == build_records_from_timesheet(df_raw, commessa_map)
       IN  /\ records' = b.records
           /\ df_agg' = b.df_agg
           /\ result' = b.result
           /\ pc' = IF b.result = "ok" THEN "load" ELSE "exit"
           /\ outcome' = IF b.result = "raised" THEN "traceback"
                         ELSE IF b.result = "empty" THEN "error_no_data"
                         ELSE outcome
    /\ UNCHANGED <<df_raw, commessa_map, first, disk, disk0, wb, sheet_idx,
                   saves, updates, run>>

\* line 108: openpyxl.load_workbook
Load ==
    /\ pc = "load"
    /\ wb' = disk
    /\ sheet_idx' = 1
    /\ pc' = "scan"
    /\ UNCHANGED <<df_raw, commessa_map, records, df_agg, result, first, disk, disk0,
                   outcome, saves, updates, run>>

\* lines 110-144: the next sheet is scanned and its cells are set in memory
ScanSheet ==
    /\ pc = "scan"
    /\ sheet_idx <= Len(wb)
    /\ ~UpdateSheet(wb[sheet_idx], df_agg).raised
    /\ wb' = [wb EXCEPT ![sheet_idx].rows = UpdateSheet(wb[sheet_idx], df_agg).rows]
    /\ sheet_idx' = sheet_idx + 1
    /\ UNCHANGED <<df_raw, commessa_map, records, df_agg, result, first, disk, disk0,
                   pc, outcome, saves, updates, run>>

\* ScanRaises with the workbook saved on the way out
ScanRaisesAndSaves ==
    /\ pc = "scan"
    /\ sheet_idx <= Len(wb)
    /\ UpdateSheet(wb[sheet_idx], df_agg).raised
    /\ wb' = [wb EXCEPT ![sheet_idx].rows = UpdateSheet(wb[sheet_idx], df_agg).rows]
    /\ disk' = wb'
    /\ saves' = saves + 1
    /\ pc' = "exit"
    /\ outcome' = "error_update"
    /\ UNCHANGED <<df_raw, commessa_map, records, df_agg, result, first, disk0,
                   sheet_idx, updates, run>>

\* lines 143, 188-192: setting a cell raises; main shows the error and returns
ScanRaises ==
    /\ pc = "scan"
    /\ sheet_idx <= Len(wb)
    /\ UpdateSheet(wb[sheet_idx], df_agg).raised
    /\ wb' = [wb EXCEPT ![sheet_idx].rows = UpdateSheet(wb[sheet_idx], df_agg).rows]
    /\ pc' = "exit"
    /\ outcome' = "error_update"
    /\ UNCHANGED <<df_raw, commessa_map, records, df_agg, result, first, disk, disk0,
                   sheet_idx, saves, updates, run>>

\* line 147: wb.save(strategie_file), after the loop over the sheets
Save ==
    /\ pc = "scan"
    /\ sheet_idx > Len(wb)
    /\ disk' = wb
    /\ saves' = saves + 1
    /\ updates' = updates + 1
    /\ pc' = "saved"
    /\ UNCHANGED <<df_raw, commessa_map, records, df_agg, result, first, disk0, wb,
                   sheet_idx, outcome, run>>

\* line 195: showinfo("Success", ...)
ReportSuccess ==
    /\ pc = "saved"
    /\ outcome' = "success"
    /\ pc' = "exit"
    /\ UNCHANGED <<df_raw, commessa_map, records, df_agg, result, first, disk, disk0,
                   wb, sheet_idx, saves, updates, run>>

\* the script is started again on the same three files
RunAgain ==
    /\ pc = "exit"
    /\ run < MaxRuns
    /\ run' = run + 1
    /\ pc' = "ask_timesheet"
    /\ outcome' = "none"
    /\ saves' = 0
    /\ disk0' = disk
    /\ records' = <<>>
    /\ df_agg' = <<>>
    /\ result' = "none"
    /\ wb' = <<>>
    /\ sheet_idx' = 0
    /\ UNCHANGED <<df_raw, commessa_map, first, disk, updates>>

Next ==
    \/ AskFile("ask_timesheet", "ask_mapping")
    \/ CancelFile("ask_timesheet", "error_no_timesheet")
    \/ AskFile("ask_mapping", "ask_strategie")
    \/ CancelFile("ask_mapping", "error_no_mapping")
    \/ AskFile("ask_strategie", "build")
    \/ CancelFile("ask_strategie", "error_no_strategie")
    \/ Build
    \/ Load
    \/ ScanSheet
    \/ ScanRaises
    \/ Save
    \/ ReportSuccess
    \/ RunAgain

Spec == Init /\ [][Next]_vars

(***************************************************************************)
(* Properties of build_records_from_timesheet (under SpecNormalize).       *)
(***************************************************************************)
\* the (date, person) pairs that received a contribution
ContributedPairs == {<<records[j].DATA, records[j].SURNAME>> : j \in 1..Len(records)}

ContributionsTo(pair) ==
    SelectSeq(records, LAMBDA r : r.DATA = pair[1] /\ r.SURNAME = pair[2])

RowsFor(pair) ==
    {i \in 1..Len(df_agg) : DateOf(df_agg[i].DATA) = pair[1] /\ df_agg[i].SURNAME = pair[2]}

\* q lists the texts of S once each, in increasing order
IsSortedListing(q, S) ==
    /\ {q[j] : j \in 1..Len(q)} = S
    /\ \A j \in 1..(Len(q) - 1) : StrLess(q[j], q[j + 1])

\* C1: when the build returns a frame, it holds exactly one row per (date,
\* person) pair that received a non-zero contribution and no row for any other
\* pair; the row's hours are the sum of the hours of the contributions to the
\* pair and its labor codes are the distinct resolved codes of those
\* contributions, sorted and joined with "; ".
C1_OneRecordPerPair ==
    result = "ok" =>
        /\ \A pair \in ContributedPairs :
              /\ Cardinality(RowsFor(pair)) = 1
              /\ \A i \in RowsFor(pair) :
                    LET c == ContributionsTo(pair)
                        codes == {c[j].COMMESSA : j \in 1..Len(c)}
                    IN  /\ df_agg[i].ORE = SumORE(c)
                        /\ \E q \in [1..Cardinality(codes) -> codes] :
                              /\ IsSortedListing(q, codes)
                              /\ df_agg[i].COMMESSA = Join(q)
        /\ \A i \in 1..Len(df_agg) :
              <<DateOf(df_agg[i].DATA), df_agg[i].SURNAME>> \in ContributedPairs

\* a frame with a row aggregated from contributions carrying two different codes
C1_Witness ==
    /\ result = "ok"
    /\ \E pair \in ContributedPairs :
          LET c == ContributionsTo(pair)
          IN  /\ Len(c) >= 2
              /\ Cardinality({c[j].COMMESSA : j \in 1..Len(c)}) >= 2
    /\ Cardinality(ContributedPairs) >= 2

\* C2: building the same rows in another order ends the same way and returns
\* the same multiset of rows (date, person, hours, labor codes).
C2_PermutationInvariant ==
    pc = "built" => (result = first[1] /\ BagOf(df_agg) = first[2])

\* rows built again in another order, two of them contributing different codes
\* to one (date, person) pair
C2_Witness ==
    /\ pc = "built"
    /\ df_raw # first[3]
    /\ result = "ok"
    /\ \E pair \in ContributedPairs :
          Cardinality({ContributionsTo(pair)[j].COMMESSA :
                          j \in 1..Len(ContributionsTo(pair))}) >= 2

\* a weekday cell that holds 0, nothing, white space only, or non-numeric text
IsNeutralCell(x) ==
    \/ x.t = "nan"
    \/ (x.t = "num" /\ x.v = 0)
    \/ (x.t = "str" /\ Strip(x.s) = <<>>)
    \/ (x.t = "str" /\ ~IsFloatText(x.s))

\* the rows with the weekday field d of row i absent
WithoutField(df, i, d) ==
    [k \in 1..Len(df) |->
        IF k = i
        THEN [df[k] EXCEPT !.ore = [e \in (DOMAIN df[k].ore) \ {d} |-> df[k].ore[e]]]
        ELSE df[k]]

Built(df) ==
    LET b == build_records_from_timesheet(df, commessa_map)
    IN  <<b.result, b.df_agg>>

\* C3: with 0, blank, white space or non-numeric text in a weekday field, the
\* build completes and returns what it returns with that field absent.
C3_NeutralCells ==
    pc = "built" =>
        \A i \in 1..Len(df_raw) : \A d \in DOMAIN df_raw[i].ore :
            IsNeutralCell(df_raw[i].ore[d]) =>
                /\ result # "raised"
                /\ <<result, df_agg>> = Built(WithoutField(df_raw, i, d))

\* a row whose week range has no " al ", or whose start date does not parse
IsMalformedRow(row) ==
    \/ Len(row.WeekRange) < 2
    \/ ToDatetimeRaises(row.WeekRange[1], TRUE)

\* C5: with malformed rows in the input, the build completes and returns what
\* it returns for the input without them.
C5_MalformedRowsSkipped ==
    (pc = "built" /\ \E i \in 1..Len(df_raw) : IsMalformedRow(df_raw[i])) =>
        /\ result # "raised"
        /\ <<result, df_agg>> =
              Built(SelectSeq(df_raw, LAMBDA row : ~IsMalformedRow(row)))

\* a weekday cell with a numeric value other than zero
IsNonZeroNumeric(x) ==
    \/ (x.t = "num" /\ x.v # 0)
    \/ (x.t = "str" /\ IsFloatText(x.s) /\ FloatOfText(x.s) # 0)

\* the week range has one " al " and a start date that parses day-first
HasStartDate(row) ==
    Len(row.WeekRange) = 2 /\ ~ToDatetimeRaises(row.WeekRange[1], TRUE)

\* the contribution of weekday field k (Monday is field 1) of a row, for `person`
Contribution(row, k, person) ==
    [DATA     |-> Ordinal(YMD(row.WeekRange[1], TRUE)[1], YMD(row.WeekRange[1], TRUE)[2],
                          YMD(row.WeekRange[1], TRUE)[3]) + (k - 1),
     COMMESSA |-> IF row.Codice \in DOMAIN commessa_map
                  THEN commessa_map[row.Codice] ELSE row.Codice,
     ORE      |-> IF row.ore[DayCols[k]].t = "num" THEN row.ore[DayCols[k]].v
                  ELSE FloatOfText(row.ore[DayCols[k]].s),
     SURNAME  |-> person]

\* the weekday fields (row, k) of the rows in Rows that hold a non-zero number
NonZeroFields(Rows) ==
    {ik \in Rows \X (1..Len(DayCols)) :
        /\ DayCols[ik[2]] \in DOMAIN df_raw[ik[1]].ore
        /\ IsNonZeroNumeric(df_raw[ik[1]].ore[DayCols[ik[2]]])}

\* the person of a contribution: the last token of the author name, the
\* sentinel for an empty author
PersonOf(autore) == IF autore = <<>> THEN UNKNOWN ELSE autore[Len(autore)]

\* the list `records` holds the contribution of each of the fields as many
\* times as fields yield it, and nothing else
RecordsAre(fields) ==
    LET want(ik) == Contribution(df_raw[ik[1]], ik[2], PersonOf(df_raw[ik[1]].Autore))
    IN  \A t \in {records[j] : j \in 1..Len(records)} \cup {want(ik) : ik \in fields} :
            Cardinality({j \in 1..Len(records) : records[j] = t})
                = Cardinality({ik \in fields : want(ik) = t})

CalendarDates(cell) ==
    IF cell.t = "datetime" THEN {cell.ts.ord}
    ELSE IF cell.t = "str" /\ ~ToDatetimeRaises(cell.text, FALSE)
         THEN {to_datetime(cell.text, FALSE).ord}
         ELSE {}

\* the rows of df_agg of the person `name` dated as the cell
RecordsFor(name, cell) ==
    {i \in 1..Len(df_agg) :
        df_agg[i].SURNAME = name /\ df_agg[i].DATA.ord \in CalendarDates(cell)}

\* `after` has the sheets and rows of `before` in the same order, and differs
\* at most in the COMMESSA and ORE cells of rows for which the person of the
\* sheet has a record of the date of the row
Frame(before, after) ==
    /\ Len(after) = Len(before)
    /\ \A s \in 1..Len(before) :
          /\ after[s].name = before[s].name
          /\ Len(after[s].rows) = Len(before[s].rows)
          /\ \A r \in 1..Len(before[s].rows) :
                LET old == before[s].rows[r]
                    new == after[s].rows[r]
                IN  /\ new.A = old.A
                    /\ new.D = old.D
                    /\ new.merged = old.merged
                    /\ (new.B # old.B \/ new.C # old.C)
                          => RecordsFor(before[s].name, old.A) # {}

\* C6: the update changes neither the count nor the order of the rows of any
\* sheet (a record without a row of its date creates none); only COMMESSA and
\* ORE cells of existing rows change, in a sheet named as the person of a
\* record, in a row dated as a record of that person; all else is unchanged.
C6_Frame ==
    /\ Frame(disk0, disk)
    /\ pc \in {"scan", "saved"} => Frame(disk0, wb)

\* a saved update that changed the ledger although a record had no row
C6_Witness ==
    /\ saves = 1
    /\ disk # disk0
    /\ \E i \in 1..Len(df_agg) : \A s \in 1..Len(disk) : \A r \in 1..Len(disk[s].rows) :
          i \notin RecordsFor(disk[s].name, disk[s].rows[r].A)
    /\ \E r \in 1..Len(disk[1].rows) : disk[1].rows[r] = disk0[1].rows[r]

\* C7: after the update, every row of a sheet named as the person of a record
\* and dated (as text or as a datetime, the time of day dropped) as that record
\* holds the record's joined labels and its hours.
C7_Overwritten ==
    saves = 1 =>
        \A s \in 1..Len(disk) : \A r \in 1..Len(disk[s].rows) :
            \A i \in RecordsFor(disk[s].name, disk[s].rows[r].A) :
                /\ disk[s].rows[r].B = Str(df_agg[i].COMMESSA)
                /\ disk[s].rows[r].C = Num(df_agg[i].ORE)

\* a saved update that overwrote a row dated by a text, a row dated by a
\* datetime with a time of day, and wrote two joined labels
C7_Witness ==
    /\ saves = 1
    /\ \E r \in 1..Len(disk[1].rows) :
          disk[1].rows[r].A.t = "str" /\ disk[1].rows[r].B # disk0[1].rows[r].B
    /\ \E r \in 1..Len(disk[1].rows) :
          /\ disk[1].rows[r].A.t = "datetime" /\ disk[1].rows[r].A.ts.tod # 0
          /\ disk[1].rows[r].B = Str(Label2W \o Separator \o CodeA7)

\* C8: an update with the same records on the ledger an update left changes
\* nothing in the persisted ledger.
C8_Idempotent == [][updates >= 1 => disk' = disk]_vars

\* a second update saved, the first one having overwritten a row
C8_Witness ==
    /\ updates >= 2
    /\ saves = 1
    /\ \E s \in 1..Len(disk) : \E r \in 1..Len(disk[s].rows) :
          RecordsFor(disk[s].name, disk[s].rows[r].A) # {}

FullyUpdated(before, after) ==
    /\ Len(after) = Len(before)
    /\ \A s \in 1..Len(before) :
          /\ ~UpdateSheet(before[s], df_agg).raised
          /\ after[s].rows = UpdateSheet(before[s], df_agg).rows

\* C9: the ledger is persisted at most once in a run, only after every sheet
\* was overwritten in memory, and it then holds all overwrites; before that it
\* is as the run found it.  No save happens, and no success is reported, when
\* a file selection is cancelled, when the build returns no record (or
\* raises), or when the scan raises.
C9_SaveOnceAtEnd ==
    /\ saves <= 1
    /\ saves = 0 => disk = disk0
    /\ saves = 1 => (sheet_idx > Len(wb) /\ disk = wb /\ FullyUpdated(disk0, disk))
    /\ outcome \in {"error_no_timesheet", "error_no_mapping", "error_no_strategie"}
          => (saves = 0 /\ result = "none")
    /\ result \in {"empty", "raised"} => (saves = 0 /\ outcome # "success")
    /\ (\E s \in 1..Len(disk0) : UpdateSheet(disk0[s], df_agg).raised)
          => (saves = 0 /\ outcome # "success")
    /\ outcome = "success" => (saves = 1 /\ result = "ok")
    /\ pc = "exit" => outcome # "none"

\* a run that failed in the scan after it had overwritten cells in memory
C9_Witness ==
    /\ pc = "exit"
    /\ outcome = "error_update"
    /\ wb # disk
    /\ disk = disk0

\* C4: authors that differ in case or given name fall under one person key,
\* and the update applies a person's records to the sheet whose name equals
\* the surname without regard to case.
C4_CaseInsensitivePerson ==
    /\ \A i, j \in 1..Len(df_agg) :
          (Lower(df_agg[i].SURNAME) = Lower(df_agg[j].SURNAME)
              /\ df_agg[i].DATA = df_agg[j].DATA) => i = j
    /\ saves = 1 =>
          \A s \in 1..Len(disk) : \A r \in 1..Len(disk[s].rows) : \A i \in 1..Len(df_agg) :
              (Lower(df_agg[i].SURNAME) = Lower(disk[s].name)
                  /\ df_agg[i].DATA.ord \in CalendarDates(disk[s].rows[r].A))
              => /\ disk[s].rows[r].B = Str(df_agg[i].COMMESSA)
                 /\ disk[s].rows[r].C = Num(df_agg[i].ORE)

====
